---- MODULE Spec2Model ----
(***************************************************************************)
(* Model of LaTeXParser (src/app/core/latex_parser.py): the line sequence, *)
(* the two boundary indices, the preamble and the sections dictionary, and *)
(* the public operations parse_content, get_section, modify_section,       *)
(* add_section, reorder_sections and generate_latex.                       *)
(*                                                                         *)
(* A Python string is a sequence of tokens.  A token is either the line    *)
(* terminator, one of the two document markers, a section command or a     *)
(* piece of plain text.  A line is the sequence of tokens up to and        *)
(* including its terminator.                                               *)
(***************************************************************************)
EXTENDS Integers, Sequences, FiniteSets, TLC

VARIABLES raw_content, begin_document_index, end_document_index, preamble,
          sections, call, calls, load_result

vars == <<raw_content, begin_document_index, end_document_index, preamble,
          sections, call, calls, load_result>>

(***************************************************************************)
(* Bounds of the model.                                                    *)
(***************************************************************************)
MaxDocLines == 4
MaxContentLines == 1
MaxOrder == 2
MaxCalls == 3
MaxFirstLoadLines == 5

(***************************************************************************)
(* Tokens.                                                                 *)
(***************************************************************************)
NL == "\n"
BEGIN_DOCUMENT == "\\begin{document}"
END_DOCUMENT == "\\end{document}"
TEXT == "text"

Names == {"A", "New"}
LookupNames == Names \cup {"Nope"}
NewNames == {"New"}

\* f"\\section{{{section_name}}}": the header command of a section name.
SectionToken(name) ==
    CASE name = "A" -> "\\section{A}"
      [] name = "New" -> "\\section{New}"
      [] OTHER -> "\\section{Nope}"

HeaderTokens == {SectionToken(n) : n \in LookupNames}

\* group(2) of section_pattern on a header token.
HeaderName(tok) == CHOOSE n \in LookupNames : SectionToken(n) = tok

(***************************************************************************)
(* Python list and string primitives.                                      *)
(***************************************************************************)
\* str.splitlines(keepends): cut after every terminator; a last piece with
\* no terminator is a line of its own; an empty string has no line.
RECURSIVE SplitFrom(_, _, _, _)
SplitFrom(s, cur, acc, keepends) ==
    IF s = <<>> THEN (IF cur = <<>> THEN acc ELSE Append(acc, cur))
    ELSE IF Head(s) = NL
         THEN SplitFrom(Tail(s), <<>>,
                        Append(acc, IF keepends THEN Append(cur, NL) ELSE cur),
                        keepends)
         ELSE SplitFrom(Tail(s), Append(cur, Head(s)), acc, keepends)

\* str.splitlines() called without keepends.
splitlines_nokeep(s) == SplitFrom(s, <<>>, <<>>, FALSE)

\* str.splitlines(True), as parse_content and the mutators call it.
splitlines(s) == SplitFrom(s, <<>>, <<>>, TRUE)

\* ''.join(list)
RECURSIVE join(_)
join(ls) == IF ls = <<>> THEN <<>> ELSE Head(ls) \o join(Tail(ls))

\* `marker in line`
Contains(line, tok) == \E k \in DOMAIN line : line[k] = tok

\* A slice bound as Python normalises it for a list of length n.
SliceIndex(i, n) ==
    IF i < 0 THEN (IF i + n < 0 THEN 0 ELSE i + n)
    ELSE IF i > n THEN n ELSE i

\* list[a:b]
Slice(ls, a, b) ==
    LET lo == SliceIndex(a, Len(ls))
        hi == SliceIndex(b, Len(ls))
    IN  IF hi <= lo THEN <<>> ELSE SubSeq(ls, lo + 1, hi)

\* list[a:b] = new
SliceAssign(ls, a, b, new) ==
    LET lo == SliceIndex(a, Len(ls))
        h0 == SliceIndex(b, Len(ls))
        hi == IF h0 < lo THEN lo ELSE h0
    IN  SubSeq(ls, 1, lo) \o new \o SubSeq(ls, hi + 1, Len(ls))

(***************************************************************************)
(* The sections dictionary: a Python dict keeps its keys in the order of   *)
(* their first insertion; assigning to a present key keeps its place.      *)
(***************************************************************************)
Keys(d) == {d[k].name : k \in DOMAIN d}

Has(d, name) == name \in Keys(d)

Get(d, name) == d[CHOOSE k \in DOMAIN d : d[k].name = name]

\* A faulty store: the entry of a key already present is kept.
Put_keep_first(d, name, content, start, end) ==
    IF Has(d, name) THEN d
    ELSE Append(d, [name |-> name, content |-> content,
                    start_line |-> start, end_line |-> end])

Put(d, name, content, start, end) ==
    LET e == [name |-> name, content |-> content,
              start_line |-> start, end_line |-> end]
    IN  IF Has(d, name)
        THEN [k \in DOMAIN d |-> IF d[k].name = name THEN e ELSE d[k]]
        ELSE Append(d, e)

(***************************************************************************)
(* _identify_document_boundaries: one pass over the lines; a line with the *)
(* begin marker sets the begin index, any other line with the end marker   *)
(* sets the end index; the indices start from their current values.        *)
(***************************************************************************)
RECURSIVE ScanBoundaries(_, _, _, _)
ScanBoundaries(ls, i, b, e) ==
    IF i >= Len(ls) THEN [begin |-> b, end |-> e]
    ELSE IF Contains(ls[i + 1], BEGIN_DOCUMENT) THEN ScanBoundaries(ls, i + 1, i, e)
    ELSE IF Contains(ls[i + 1], END_DOCUMENT) THEN ScanBoundaries(ls, i + 1, b, i)
    ELSE ScanBoundaries(ls, i + 1, b, e)

identify_document_boundaries(ls, b, e) ==
    LET r == ScanBoundaries(ls, 0, b, e)
    IN  [begin |-> r.begin, end |-> r.end,
         raised |-> (r.begin = -1 \/ r.end = -1)]

\* _extract_preamble
extract_preamble(ls, b, pre) ==
    IF b > 0 THEN join(Slice(ls, 0, b)) ELSE pre

(***************************************************************************)
(* _extract_sections: the loop over range(begin + 1, end).  cur = "" is    *)
(* current_section = None.  Reading a line past the end of the list raises *)
(* IndexError, leaving the entries stored so far.                          *)
(***************************************************************************)
\* section_pattern.search(line): the name of the leftmost header, or "".
section_match(line) ==
    LET hs == {k \in DOMAIN line : line[k] \in HeaderTokens}
    IN  IF hs = {} THEN ""
        ELSE HeaderName(line[CHOOSE k \in hs : \A j \in hs : k <= j])

RECURSIVE ScanSections(_, _, _, _, _, _, _)
ScanSections(ls, i, e, cur, content, start, d) ==
    IF i >= e
    THEN [sections |-> IF cur /= "" THEN Put(d, cur, join(content), start, e - 1)
                       ELSE d,
          raised |-> FALSE]
    ELSE IF i >= Len(ls) THEN [sections |-> d, raised |-> TRUE]
    ELSE LET line == ls[i + 1]
             m == section_match(line)
         IN  IF m /= ""
             THEN ScanSections(ls, i + 1, e, m, <<line>>, i,
                               IF cur /= "" THEN Put(d, cur, join(content), start, i - 1)
                               ELSE d)
             ELSE IF cur /= ""
                  THEN ScanSections(ls, i + 1, e, cur, Append(content, line), start, d)
                  ELSE ScanSections(ls, i + 1, e, cur, content, start, d)

extract_sections(ls, b, e, d) == ScanSections(ls, b + 1, e, "", <<>>, -1, d)

(***************************************************************************)
(* Inputs.                                                                 *)
(***************************************************************************)
Line(tok) == <<tok, NL>>

DocLines == {Line(BEGIN_DOCUMENT), Line(END_DOCUMENT), Line(SectionToken("A"))}

ContentLines == {Line(TEXT), Line(SectionToken("A")), Line(BEGIN_DOCUMENT), <<TEXT>>}

\* The strings made of at most n lines drawn from ks.
RECURSIVE Strings(_, _)
Strings(ks, n) ==
    IF n = 0 THEN {<<>>}
    ELSE LET shorter == Strings(ks, n - 1)
         IN  shorter \cup {k \o s : k \in ks, s \in shorter}

Texts == Strings(DocLines, MaxDocLines)
Contents == Strings(ContentLines, MaxContentLines)

RECURSIVE Lists(_, _)
Lists(S, n) ==
    IF n = 0 THEN {<<>>}
    ELSE LET shorter == Lists(S, n - 1)
         IN  shorter \cup {<<x>> \o s : x \in S, s \in shorter}

Orders == Lists(LookupNames, MaxOrder)
Positions == {"start", "end"} \cup LookupNames

(***************************************************************************)
(* load_result is what the latest parse_content returned, "" before the    *)
(* first one.                                                              *)
(*                                                                         *)
(* The record of the last public call: the operation, its arguments, and   *)
(* what it returned ("True", "False", "None", "str" with the string in     *)
(* value, or "raise" when an exception left the method).                   *)
(***************************************************************************)
Call(op, name, text, position, order, ret, value) ==
    [op |-> op, name |-> name, text |-> text, position |-> position,
     order |-> order, ret |-> ret, value |-> value]

\* __init__
Init ==
    /\ raw_content = <<>>
    /\ begin_document_index = -1
    /\ end_document_index = -1
    /\ preamble = <<>>
    /\ sections = <<>>
    /\ call = Call("__init__", "", <<>>, "", <<>>, "", <<>>)
    /\ calls = 0
    /\ load_result = ""

(***************************************************************************)
(* The state after boundary location and section scan on lines ls, from    *)
(* the indices b, e and the dictionary d: what every mutator runs after    *)
(* its splice.  raised is an exception leaving the rescan.                 *)
(***************************************************************************)
Rescan(ls, b, e, d) ==
    LET r == identify_document_boundaries(ls, b, e)
        s == extract_sections(ls, r.begin, r.end, d)
    IN  IF r.raised
        THEN [begin |-> r.begin, end |-> r.end, sections |-> d, raised |-> TRUE]
        ELSE [begin |-> r.begin, end |-> r.end, sections |-> s.sections,
              raised |-> s.raised]

\* parse_content: every exception is caught and reported as False; the
\* preamble and the sections are those reached when it was raised.
parse_content_result(b, e, pre, d, latex_content) ==
    LET ls == splitlines(latex_content)
        r == identify_document_boundaries(ls, b, e)
        s == extract_sections(ls, r.begin, r.end, d)
    IN  IF r.raised
        THEN [lines |-> ls, begin |-> r.begin, end |-> r.end, preamble |-> pre,
              sections |-> d, ret |-> "False"]
        ELSE [lines |-> ls, begin |-> r.begin, end |-> r.end,
              preamble |-> extract_preamble(ls, r.begin, pre),
              sections |-> s.sections,
              ret |-> IF s.raised THEN "False" ELSE "True"]

parse_content(latex_content) ==
    /\ calls < MaxCalls
    /\ calls' = calls + 1
    /\ \E o \in {parse_content_result(begin_document_index, end_document_index,
                                      preamble, sections, latex_content)} :
           /\ raw_content' = o.lines
           /\ begin_document_index' = o.begin
           /\ end_document_index' = o.end
           /\ preamble' = o.preamble
           /\ sections' = o.sections
           /\ call' = Call("parse_content", "", latex_content, "", <<>>, o.ret, <<>>)
           /\ load_result' = o.ret

\* get_section
get_section(name) ==
    /\ calls < MaxCalls
    /\ calls' = calls + 1
    /\ call' = IF Has(sections, name)
               THEN Call("get_section", name, <<>>, "", <<>>, "str",
                         Get(sections, name).content)
               ELSE Call("get_section", name, <<>>, "", <<>>, "None", <<>>)
    /\ UNCHANGED <<raw_content, begin_document_index, end_document_index,
                   preamble, sections, load_result>>

(***************************************************************************)
(* The mutators.  Each is an operator from the state and the arguments to  *)
(* the state the call leaves and what it returns, and an action applying   *)
(* it.                                                                     *)
(***************************************************************************)
Outcome(ls, r, ret) ==
    [lines |-> ls, begin |-> r.begin, end |-> r.end, sections |-> r.sections,
     ret |-> ret]

Untouched(ls, b, e, d) == [begin |-> b, end |-> e, sections |-> d, raised |-> FALSE]

\* A faulty modify_section: the content of an unknown name is appended to the
\* lines before False is returned.
modify_section_upsert(ls, b, e, d, section_name, new_content) ==
    LET known == Has(d, section_name)
        spliced == IF known
                   THEN SliceAssign(ls, Get(d, section_name).start_line,
                                    Get(d, section_name).end_line + 1,
                                    splitlines(new_content))
                   ELSE ls \o splitlines(new_content)
        r == Rescan(spliced, b, e, d)
    IN  Outcome(spliced, r, IF r.raised THEN "raise" ELSE IF known THEN "True" ELSE "False")

\* modify_section: no handler around the rescan, an exception leaves the call.
modify_section_result(ls, b, e, d, section_name, new_content) ==
    IF ~Has(d, section_name) THEN Outcome(ls, Untouched(ls, b, e, d), "False")
    ELSE LET section == Get(d, section_name)
             spliced == SliceAssign(ls, section.start_line, section.end_line + 1,
                                    splitlines(new_content))
             r == Rescan(spliced, b, e, d)
         IN  Outcome(spliced, r, IF r.raised THEN "raise" ELSE "True")

\* add_section: an exception of the rescan is caught and reported as False.
add_section_result(ls, b, e, d, section_name, content, position) ==
    LET full_content == <<SectionToken(section_name), NL>> \o content
        known == position = "start" \/ position = "end" \/ Has(d, position)
        insert_pos == IF position = "start" THEN b + 1
                      ELSE IF position = "end" THEN e
                      ELSE Get(d, position).end_line + 1
        spliced == SliceAssign(ls, insert_pos, insert_pos, splitlines(full_content))
        r == Rescan(spliced, b, e, d)
    IN  IF ~known THEN Outcome(ls, Untouched(ls, b, e, d), "False")
        ELSE Outcome(spliced, r, IF r.raised THEN "False" ELSE "True")

\* The new body of reorder_sections: the current lines of each listed range.
RECURSIVE new_body(_, _, _)
new_body(ls, d, order) ==
    IF order = <<>> THEN <<>>
    ELSE LET section_data == Get(d, Head(order))
         IN  Slice(ls, section_data.start_line, section_data.end_line + 1)
             \o new_body(ls, d, Tail(order))

\* reorder_sections: an exception of the rescan is caught and reported as False.
reorder_sections_result(ls, b, e, d, order) ==
    IF \E k \in DOMAIN order : ~Has(d, order[k])
    THEN Outcome(ls, Untouched(ls, b, e, d), "False")
    ELSE LET spliced == SliceAssign(ls, b + 1, e, new_body(ls, d, order))
             r == Rescan(spliced, b, e, d)
         IN  Outcome(spliced, r, IF r.raised THEN "False" ELSE "True")

Apply(o) ==
    /\ raw_content' = o.lines
    /\ begin_document_index' = o.begin
    /\ end_document_index' = o.end
    /\ sections' = o.sections
    /\ UNCHANGED <<preamble, load_result>>

modify_section(section_name, new_content) ==
    /\ calls < MaxCalls
    /\ calls' = calls + 1
    /\ \E o \in {modify_section_result(raw_content, begin_document_index,
                                       end_document_index, sections,
                                       section_name, new_content)} :
           /\ Apply(o)
           /\ call' = Call("modify_section", section_name, new_content, "", <<>>,
                           o.ret, <<>>)

add_section(section_name, content, position) ==
    /\ calls < MaxCalls
    /\ calls' = calls + 1
    /\ \E o \in {add_section_result(raw_content, begin_document_index,
                                    end_document_index, sections,
                                    section_name, content, position)} :
           /\ Apply(o)
           /\ call' = Call("add_section", section_name, content, position, <<>>,
                           o.ret, <<>>)

reorder_sections(order) ==
    /\ calls < MaxCalls
    /\ calls' = calls + 1
    /\ \E o \in {reorder_sections_result(raw_content, begin_document_index,
                                         end_document_index, sections, order)} :
           /\ Apply(o)
           /\ call' = Call("reorder_sections", "", <<>>, "", order, o.ret, <<>>)

\* generate_latex
generate_latex ==
    /\ calls < MaxCalls
    /\ calls' = calls + 1
    /\ call' = Call("generate_latex", "", <<>>, "", <<>>, "str", join(raw_content))
    /\ UNCHANGED <<raw_content, begin_document_index, end_document_index,
                   preamble, sections, load_result>>

Next ==
    \/ \E text \in Texts : parse_content(text)
    \/ \E name \in LookupNames : get_section(name)
    \/ \E name \in LookupNames, x \in Contents : modify_section(name, x)
    \/ \E name \in NewNames, x \in Contents, position \in Positions :
           add_section(name, x, position)
    \/ \E order \in Orders : reorder_sections(order)
    \/ generate_latex

Spec == Init /\ [][Next]_vars

(***************************************************************************)
(* The first load of a new parser, followed by reads: the specification of *)
(* what one scan of a text yields.  Its texts also have a second header    *)
(* name, plain lines and a line holding both markers.                      *)
(***************************************************************************)
FirstLoadLines ==
    DocLines \cup {Line(SectionToken("New")), Line(TEXT),
                   <<BEGIN_DOCUMENT, END_DOCUMENT, NL>>}

FirstLoadTexts == Strings(FirstLoadLines, MaxFirstLoadLines)

NextFirstLoad ==
    \/ calls = 0 /\ \E text \in FirstLoadTexts : parse_content(text)
    \/ calls = 1 /\ \E name \in LookupNames : get_section(name)
    \/ calls = 1 /\ generate_latex

SpecFirstLoad == Init /\ [][NextFirstLoad]_vars

(***************************************************************************)
(* Vocabulary of the properties.                                           *)
(***************************************************************************)
Mutators == {"modify_section", "add_section", "reorder_sections"}

\* The step is a call of the operation op.
IsCall(op) == calls' = calls + 1 /\ call'.op = op

\* The set of entries of a dictionary, without their listing order.
Entries(d) == {d[k] : k \in DOMAIN d}

\* The dictionary a scan of the lines between the boundaries builds from nothing.
FreshScan(ls, b, e) == extract_sections(ls, b, e, <<>>).sections

\* The lines strictly between the two boundary lines.
Body(ls, b, e) == IF b < 0 \/ e < 0 THEN <<>> ELSE Slice(ls, b + 1, e)

HasHeader(s) == \E k \in DOMAIN s : s[k] \in HeaderTokens

\* C1: after a successful load and any mutator calls, the sections map is
\* exactly what a fresh scan of the current lines between the current
\* boundaries yields.
C1_SectionsDerived ==
    (load_result = "True" /\ call.op \in Mutators \cup {"parse_content"})
        => Entries(sections)
             = Entries(FreshScan(raw_content, begin_document_index,
                                 end_document_index))

\* C2: a successful modify_section(name, X) followed by get_section(name)
\* returns the original header line followed by X when X holds no header,
\* and exactly X when X starts with the header of name.
C2_ReplaceThenGet ==
    [][(IsCall("modify_section") /\ call'.ret = "True" /\ load_result = "True")
         => LET X == call'.text
                got == Get(sections', call'.name).content
                header == Head(splitlines(Get(sections, call'.name).content))
            IN  /\ ~HasHeader(X) => got = header \o X
                /\ (X /= <<>> /\ Head(X) = SectionToken(call'.name)) => got = X]_vars

\* C3: for a name that is no key of the sections map, get_section returns
\* None, and modify_section and reorder_sections (the name anywhere in the
\* order) return False and leave the lines, the boundaries and the map as
\* they were.
C3_UnknownName ==
    [][/\ (IsCall("get_section") /\ ~Has(sections, call'.name))
            => call'.ret = "None"
       /\ (IsCall("modify_section") /\ ~Has(sections, call'.name))
            => /\ call'.ret = "False"
               /\ UNCHANGED <<raw_content, begin_document_index,
                              end_document_index, sections>>
       /\ (IsCall("reorder_sections")
             /\ \E k \in DOMAIN call'.order : ~Has(sections, call'.order[k]))
            => /\ call'.ret = "False"
               /\ UNCHANGED <<raw_content, begin_document_index,
                              end_document_index, sections>>]_vars

\* C3 witness: on a loaded document with a section, modify_section of an
\* unknown name with lines to write has returned False.
C3_Witness ==
    /\ call.op = "modify_section"
    /\ call.ret = "False"
    /\ call.text /= <<>>
    /\ ~Has(sections, call.name)
    /\ sections /= <<>>
    /\ load_result = "True"

\* C4: a mutator that returns False leaves the lines as they were, in every
\* state, a Document never loaded or whose load failed included.
C4_NoPartialMutation ==
    [][(calls' = calls + 1 /\ call'.op \in Mutators /\ call'.ret = "False")
         => raw_content' = raw_content]_vars

\* C5: after a successful reorder_sections(order) on a loaded document the
\* lines strictly between the markers are the concatenation, in the order
\* given, of the line ranges of the named sections.
C5_ReorderSubtractive ==
    [][(IsCall("reorder_sections") /\ call'.ret = "True" /\ load_result = "True")
         => Body(raw_content', begin_document_index', end_document_index')
              = new_body(raw_content, sections, call'.order)]_vars

\* C6: where "A" is a known section name, add_section("New", content, "A")
\* puts the header line of "New" right after the last line of "A", and the
\* rescan reports "A" immediately followed by "New".
C6_InsertAfterNamed ==
    [][(IsCall("add_section") /\ call'.name = "New" /\ call'.position = "A"
          /\ Has(sections, "A"))
         => LET after == Get(sections, "A").end_line + 1
            IN  /\ call'.ret = "True"
                /\ after < Len(raw_content')
                /\ raw_content'[after + 1] = <<SectionToken("New"), NL>>
                /\ Has(sections', "New")
                /\ Get(sections', "A").end_line + 1
                     = Get(sections', "New").start_line]_vars

\* The index of the first header line of the body, or e when it has none.
FirstHeader(ls, b, e) ==
    LET hs == {i \in (b + 1)..(e - 1) :
                  i < Len(ls) /\ section_match(ls[i + 1]) /= ""}
    IN  IF hs = {} THEN e ELSE CHOOSE i \in hs : \A j \in hs : i <= j

\* C7: after every scan the ranges of the entries are pairwise disjoint and
\* ascending in listing order, and with the body lines before the first
\* header they make up exactly the body span.
C7_SectionCoverage ==
    (call.op \in Mutators \cup {"parse_content"} /\ call.ret = "True")
        => /\ \A k, l \in DOMAIN sections :
                 k < l => sections[k].end_line < sections[l].start_line
           /\ \A k \in DOMAIN sections :
                 sections[k].start_line <= sections[k].end_line
           /\ UNION {sections[k].start_line..sections[k].end_line :
                        k \in DOMAIN sections}
                = FirstHeader(raw_content, begin_document_index,
                              end_document_index)..(end_document_index - 1)

\* C8: a load whose input has no line with the begin marker, or none with
\* the end marker, returns False, whatever the state it is called in.
C8_BoundaryRequirement ==
    [][(IsCall("parse_content")
          /\ LET ls == splitlines(call'.text)
             IN  \/ ~\E k \in DOMAIN ls : Contains(ls[k], BEGIN_DOCUMENT)
                 \/ ~\E k \in DOMAIN ls : Contains(ls[k], END_DOCUMENT))
         => call'.ret = "False"]_vars

\* C9: both indices are -1 before the first scan, and after a successful
\* load and every later mutator call the begin index is below the end index.
C9_BoundaryOrder ==
    /\ calls = 0 => (begin_document_index = -1 /\ end_document_index = -1)
    /\ load_result = "True" => begin_document_index < end_document_index

\* C10: generate_latex right after parse_content(text) returns text; loading
\* what generate_latex returns and generating again gives the same string;
\* generate_latex is the concatenation of the current lines.
C10_RoundTrip ==
    /\ [][(call.op = "parse_content" /\ IsCall("generate_latex"))
            => call'.value = call.text]_vars
    /\ [](call.op = "parse_content" => join(raw_content) = call.text)
    /\ [](call.op = "generate_latex" => call.value = join(raw_content))
    /\ [](join(splitlines(join(raw_content))) = join(raw_content))

\* C10 witness: generate_latex has returned the text of a document with both
\* markers right after its successful load.
C10_Witness ==
    /\ call.op = "generate_latex"
    /\ calls = 2
    /\ load_result = "True"
    /\ Contains(call.value, BEGIN_DOCUMENT)
    /\ Contains(call.value, END_DOCUMENT)

\* C11: a load that returns False leaves the lines, the boundary indices,
\* the preamble and the sections map as they were before the call.
C11_FailedLoadKeepsState ==
    [][(IsCall("parse_content") /\ call'.ret = "False")
         => UNCHANGED <<raw_content, begin_document_index, end_document_index,
                        preamble, sections>>]_vars

\* The line holds a document marker.
HasMarker(s) == Contains(s, BEGIN_DOCUMENT) \/ Contains(s, END_DOCUMENT)

\* The lines with the begin marker, and those with the end marker.
BeginLines(ls) == {i \in 0..(Len(ls) - 1) : Contains(ls[i + 1], BEGIN_DOCUMENT)}
EndLines(ls) == {i \in 0..(Len(ls) - 1) : Contains(ls[i + 1], END_DOCUMENT)}

\* Exactly one line with each marker, and the two indices are theirs.
WellMarked(ls, b, e) == BeginLines(ls) = {b} /\ EndLines(ls) = {e}

\* C12: from a loaded document with exactly one begin-marker line and one
\* end-marker line at the two indices, a mutator whose content holds no
\* marker leaves exactly one line of each marker, at the two indices.
C12_MarkerPreservation ==
    [][(calls' = calls + 1 /\ call'.op \in Mutators /\ load_result = "True"
          /\ ~HasMarker(call'.text)
          /\ WellMarked(raw_content, begin_document_index, end_document_index))
         => WellMarked(raw_content', begin_document_index',
                       end_document_index')]_vars

\* The greatest element of a non-empty set of line indices.
Last(S) == CHOOSE i \in S : \A j \in S : j <= i

\* C13: after every boundary scan that succeeds the begin index is the last
\* line holding the begin marker and the end index the last line holding
\* the end marker, a line holding both markers included.
C13_LastMatch ==
    (call.op \in Mutators \cup {"parse_content"} /\ call.ret = "True")
        => /\ BeginLines(raw_content) /= {}
           /\ EndLines(raw_content) /= {}
           /\ begin_document_index = Last(BeginLines(raw_content))
           /\ end_document_index = Last(EndLines(raw_content))

\* The header lines of the body, and those naming n.
BodyHeaders(ls, b, e) ==
    {i \in (b + 1)..(e - 1) : section_match(ls[i + 1]) /= ""}

HeadersOf(ls, b, e, n) ==
    {i \in BodyHeaders(ls, b, e) : section_match(ls[i + 1]) = n}

\* The index of the line before the first header after line i, or e - 1.
SectionEnd(ls, b, e, i) ==
    LET later == {j \in BodyHeaders(ls, b, e) : j > i}
    IN  IF later = {} THEN e - 1
        ELSE (CHOOSE j \in later : \A k \in later : j <= k) - 1

\* C14: after the first load of a new parser the map has an entry for
\* exactly the header names of the body; the entry of a name describes the
\* last header line of that name: its index, the index of the line before
\* the next header or before the end boundary, and the lines between them
\* joined.  A body without a header gives an empty map.
C14_ScannerResult ==
    (calls = 1 /\ call.op = "parse_content" /\ call.ret = "True")
        => LET b == begin_document_index
               e == end_document_index
           IN  /\ Keys(sections)
                    = {section_match(raw_content[i + 1]) :
                          i \in BodyHeaders(raw_content, b, e)}
               /\ Len(sections) = Cardinality(Keys(sections))
               /\ \A k \in DOMAIN sections :
                     LET s == sections[k]
                         start == Last(HeadersOf(raw_content, b, e, s.name))
                     IN  /\ s.start_line = start
                         /\ s.end_line = SectionEnd(raw_content, b, e, start)
                         /\ s.content
                              = join(Slice(raw_content, start, s.end_line + 1))

\* C14 witness: a first load whose body has two headers of one name followed
\* by a header of another name.
C14_Witness ==
    /\ calls = 1
    /\ call.op = "parse_content"
    /\ call.ret = "True"
    /\ Cardinality(HeadersOf(raw_content, begin_document_index,
                             end_document_index, "A")) = 2
    /\ Has(sections, "New")
    /\ Get(sections, "A").end_line < Get(sections, "New").start_line

\* The names whose header is in the body of the document.
InDocument(ls, b, e) == Keys(FreshScan(ls, b, e))

\* C15: a successful modify_section(name, X), X without header and marker,
\* leaves the lines before the begin marker, the two marker lines and the
\* content get_section returns for every other section of the document as
\* they were.
C15_ReplaceFrame ==
    [][(IsCall("modify_section") /\ call'.ret = "True" /\ load_result = "True"
          /\ ~HasHeader(call'.text) /\ ~HasMarker(call'.text))
         => LET b == begin_document_index
                e == end_document_index
                b2 == begin_document_index'
                e2 == end_document_index'
            IN  /\ Slice(raw_content', 0, b2) = Slice(raw_content, 0, b)
                /\ Slice(raw_content', b2, b2 + 1) = Slice(raw_content, b, b + 1)
                /\ Slice(raw_content', e2, e2 + 1) = Slice(raw_content, e, e + 1)
                /\ \A m \in InDocument(raw_content, b, e) \ {call'.name} :
                      /\ Has(sections', m)
                      /\ Has(sections, m)
                      /\ Get(sections', m).content = Get(sections, m).content]_vars

\* The lines add_section inserts: the header line of the name, then content.
NewLines(section_name, content) ==
    splitlines(<<SectionToken(section_name), NL>> \o content)

\* ls2 is ls with the lines new put in at some place, nothing removed.
InsertedInto(ls, new, ls2) ==
    \E p \in 0..Len(ls) :
        ls2 = SubSeq(ls, 1, p) \o new \o SubSeq(ls, p + 1, Len(ls))

\* C16: add_section on a loaded document.  With "start" the header line of
\* the new section is the line after the begin-marker line; with "end" the
\* inserted lines end right before the end-marker line and the end index
\* grows by their number; with a position that is neither and no key of the
\* map the call returns False and leaves the lines; a successful call
\* removes no line.
C16_InsertPositions ==
    [][(IsCall("add_section") /\ load_result = "True")
         => LET b == begin_document_index
                e == end_document_index
                new == NewLines(call'.name, call'.text)
                n == Len(new)
                position == call'.position
            IN  /\ (position = "start" /\ call'.ret = "True")
                     => Slice(raw_content', b + 1, b + 2) = <<Head(new)>>
                /\ (position = "end" /\ call'.ret = "True")
                     => /\ end_document_index' = e + n
                        /\ Slice(raw_content', e, e + n) = new
                        /\ Slice(raw_content', e + n, e + n + 1)
                             = Slice(raw_content, e, e + 1)
                /\ (position \notin {"start", "end"} /\ ~Has(sections, position))
                     => call'.ret = "False" /\ raw_content' = raw_content
                /\ call'.ret = "True"
                     => InsertedInto(raw_content, new, raw_content')]_vars

\* C17: after a successful load, a second load on the same parser included,
\* and after every mutator call, the preamble is the lines before the begin
\* index joined.
C17_PreambleDerived ==
    (load_result = "True" /\ call.op \in Mutators \cup {"parse_content"}
       /\ begin_document_index >= 0)
        => preamble = join(Slice(raw_content, 0, begin_document_index))

\* C18: no public operation lets an exception leave it.
C18_NoRaise == call.ret /= "raise"

====
